---- MODULE Spec2Model ----
(***************************************************************************)
(* Exchange-rate graph and Bellman-Ford arbitrage detector of              *)
(* solana-arbitrage (main.go): the pool-monitoring goroutines, the graph   *)
(* behind its sync.RWMutex, and the detection loop.                        *)
(*                                                                         *)
(* Numbers.  A float64 rate is modelled by the exact real it stands for,   *)
(* [n, d, k] = (n/d) * (1 - fee)^k   with n/d in lowest terms: k counts the *)
(* factors (1 - fee) the value has been multiplied by.  [1,0,0] is +Inf    *)
(* and [0,1,0] is 0.  A float64 in the log domain (a weight, a distance)   *)
(* is modelled by the record [e |-> x] with x = exp(-value), so that       *)
(* value = -ln(x): sums of weights are products of the x, and a < b is     *)
(* x_a > x_b.  Rounding error of the float operations is not modelled.     *)
(***************************************************************************)
EXTENDS Integers, Sequences, FiniteSets, TLC

VARIABLES
    poolInfo,       \* monitorAccounts: the pools table (pool -> tokens)
    Vertices,       \* graph.Vertices
    Edges,          \* graph.Edges
    mu,             \* graph.mu: [writer, readers]
    pc,             \* position of each pool goroutine
    update,         \* update received by each pool goroutine (or NoUpdate)
    state,          \* poolState decoded by each pool goroutine (or NoState)
    detPc,          \* position of detectArbitrage
    opportunities,  \* detectArbitrage: the result of the last bellmanFord
    printed,        \* the paths the last printArbitrageOpportunities wrote
    cancelled,      \* ctx.Done() is closed
    crashed,        \* the process died of a panic
    walk            \* bellmanFord: a walk along prev, its inputs and its outcome

vars == <<poolInfo, Vertices, Edges, mu, pc, update, state, detPc,
          opportunities, printed, cancelled, crashed, walk>>

(***************************************************************************)
(* Bounds of the model.                                                    *)
(***************************************************************************)
MaxEdges == 4           \* edges of a snapshot handed to bellmanFord
MaxUpdates == 2         \* pool updates written to the graph in one run
MaxReserveExp == 1      \* reserves are 0 or 2^i, i in 0..MaxReserveExp
MantissaBits == 4       \* bits of the significand of a float64, scaled down from 53

Tokens == {"USDC", "SOL", "GRASS"}
NoToken == ""

\* no walk along prev is under consideration
NoWalk == [prev |-> <<>>, current |-> NoToken, visited |-> {}, steps |-> 0, done |-> FALSE]

(***************************************************************************)
(* Arithmetic.                                                             *)
(***************************************************************************)
\* F applied to the value of x: x is evaluated once, before F
With(x, F(_)) == CHOOSE r \in {F(v) : v \in {x}} : TRUE

RECURSIVE GCD(_, _)
GCD(a, b) == IF b = 0 THEN a ELSE With(a % b, LAMBDA r : GCD(b, r))

Num(n, d, k) ==
    With(GCD(n, d), LAMBDA g : [n |-> n \div g, d |-> d \div g, k |-> k])

ZeroF == [n |-> 0, d |-> 1, k |-> 0]
OneF == [n |-> 1, d |-> 1, k |-> 0]
PosInfF == [n |-> 1, d |-> 0, k |-> 0]

IsFinitePositive(x) == x.n > 0 /\ x.d > 0

\* x * y for finite positive x, y
Mul(x, y) == Num(x.n * y.n, x.d * y.d, x.k + y.k)

\* 1 / x for finite positive x
Inv(x) == [n |-> x.d, d |-> x.n, k |-> 0 - x.k]

\* fee := 0.003, in thousandths: 1 - fee = FeeKeep / FeeScale
FeePerMille == 3
FeeScale == 1000
FeeKeep == FeeScale - FeePerMille

\* X > Y * (1 - fee)^m, for naturals X, Y, m.  (1 - fee)^m < 1 decides the case
\* X >= Y, and (1 - fee)^m > 1/2 for m <= 230 decides the case 2X <= Y.
RECURSIVE PowGt(_, _, _)
PowGt(X, Y, m) ==
    IF m = 0 THEN X > Y
    ELSE IF X = 0 THEN FALSE
    ELSE IF X >= Y THEN TRUE
    ELSE IF 2 * X <= Y /\ m <= 230 THEN FALSE
    ELSE PowGt(X * FeeScale, Y * FeeKeep, m - 1)

\* X * (1 - fee)^m > Y, for naturals X, Y, m
RECURSIVE PowLt(_, _, _)
PowLt(X, Y, m) ==
    IF m = 0 THEN X > Y
    ELSE IF X <= Y THEN FALSE
    ELSE IF X >= 2 * Y /\ m <= 230 THEN TRUE
    ELSE PowLt(X * FeeKeep, Y * FeeScale, m - 1)

\* x > y on the floats (0 and +Inf included)
Gt(x, y) ==
    IF x.d = 0 THEN y.d # 0
    ELSE IF y.d = 0 THEN FALSE
    ELSE LET a == x.n * y.d
             b == y.n * x.d
             g == GCD(a, b)
             X == IF g = 0 THEN 0 ELSE a \div g
             Y == IF g = 0 THEN 0 ELSE b \div g
         IN  IF x.k >= y.k THEN PowLt(X, Y, x.k - y.k)
             ELSE PowGt(X, Y, y.k - x.k)

\* -math.Log(x), math.Exp(-w), a + b, a < b and the constants of the log domain
NegLog(x) == [e |-> x]
ExpNeg(w) == w.e
LogAdd(a, b) == [e |-> Mul(a.e, b.e)]
LogLt(a, b) == Gt(a.e, b.e)
LogPosInf == [e |-> ZeroF]
LogZero == [e |-> OneF]
\* math.IsInf(w, 0) || math.IsNaN(w)
IsInfOrNaN(w) == w.e.n = 0 \/ w.e.d = 0

(***************************************************************************)
(* Graph.addEdge                                                           *)
(***************************************************************************)
\* the weight with the sign of the logarithm dropped: math.Log(rate)
WeightOfPlusLog(rate) == [e |-> Inv(rate)]
\* weight := -math.Log(rate)
WeightOf(rate) == NegLog(rate)

addEdge(edges, from, to, rate) ==
    Append(edges, [From |-> from, To |-> to, Weight |-> WeightOf(rate), Rate |-> rate])

(***************************************************************************)
(* bellmanFord                                                             *)
(***************************************************************************)
InVertices(vertices, t) == \E i \in 1..Len(vertices) : vertices[i] = t

\* dist after "Initialize all distances to infinity except start"; a token that
\* is no vertex has no entry, and a read of a missing key yields 0.
InitDist(vertices, start) ==
    [t \in Tokens |->
        IF t = start THEN LogZero
        ELSE IF InVertices(vertices, t) THEN LogPosInf
        ELSE LogZero]

InitPrev == [t \in Tokens |-> NoToken]

\* dist[edge.From] != +Inf and dist[edge.From] + edge.Weight < dist[edge.To]
Relaxes(dist, edge) ==
    /\ dist[edge.From] # LogPosInf
    /\ With(LogAdd(dist[edge.From], edge.Weight),
            LAMBDA through : LogLt(through, dist[edge.To]))

Relax(dp, edge) ==
    IF Relaxes(dp.dist, edge)
    THEN [dist |-> [dp.dist EXCEPT ![edge.To] = LogAdd(dp.dist[edge.From], edge.Weight)],
          prev |-> [dp.prev EXCEPT ![edge.To] = edge.From]]
    ELSE dp

\* one pass over graph.Edges, from edge i on
RECURSIVE RelaxEdges(_, _, _)
RelaxEdges(dp, edges, i) ==
    IF i > Len(edges) THEN dp
    ELSE With(Relax(dp, edges[i]), LAMBDA relaxed : RelaxEdges(relaxed, edges, i + 1))

\* "Relax edges |V| - 1 times"
RECURSIVE RelaxPasses(_, _, _)
RelaxPasses(dp, edges, passes) ==
    IF passes <= 0 THEN dp
    ELSE With(RelaxEdges(dp, edges, 1),
              LAMBDA relaxed : RelaxPasses(relaxed, edges, passes - 1))

\* the index of the edge from -> to of the highest rate, 0 when there is none
RECURSIVE FindEdgeBest(_, _, _, _)
FindEdgeBest(edges, from, to, i) ==
    IF i > Len(edges) THEN 0
    ELSE With(FindEdgeBest(edges, from, to, i + 1), LAMBDA j :
         IF edges[i].From = from /\ edges[i].To = to
            /\ (j = 0 \/ ~Gt(edges[j].Rate, edges[i].Rate))
         THEN i ELSE j)

\* the index of the first edge from -> to, 0 when there is none
RECURSIVE FindEdge(_, _, _, _)
FindEdge(edges, from, to, i) ==
    IF i > Len(edges) THEN 0
    ELSE IF edges[i].From = from /\ edges[i].To = to THEN i
    ELSE FindEdge(edges, from, to, i + 1)

\* "Calculate actual cycle profit": amount after the legs i.. of actualCycle
RECURSIVE CycleAmount(_, _, _, _)
CycleAmount(edges, actualCycle, i, amount) ==
    IF i > Len(actualCycle) - 1 THEN amount
    ELSE With(FindEdge(edges, actualCycle[i], actualCycle[i + 1], 1), LAMBDA j :
         With(IF j = 0 THEN amount ELSE Mul(amount, ExpNeg(edges[j].Weight)),
              LAMBDA traded : CycleAmount(edges, actualCycle, i + 1, traded)))

\* cycleStart: the first index of next in cycle, 0 when there is none
RECURSIVE CycleStart(_, _, _)
CycleStart(cycle, next, i) ==
    IF i > Len(cycle) THEN 0
    ELSE IF cycle[i] = next THEN i
    ELSE CycleStart(cycle, next, i + 1)

IsProfitable(amount) == Gt(amount, OneF)

\* the body of "if visited[next]": opps with the cycle appended when it pays
CompleteCycle(edges, cycle, next, opps) ==
    LET cycleStart == CycleStart(cycle, next, 1) IN
    IF cycleStart = 0 THEN opps
    ELSE LET actualCycle == Append(SubSeq(cycle, cycleStart, Len(cycle)), next) IN
         IF IsProfitable(CycleAmount(edges, actualCycle, 1, OneF))
         THEN Append(opps, actualCycle)
         ELSE opps

\* the loop "for { next := prev[current] ... }"; steps counts its iterations
RECURSIVE Walk(_, _, _, _, _, _)
Walk(edges, prev, current, cycle, cs, steps) ==
    With(prev[current], LAMBDA next :
        IF next = NoToken THEN [cs EXCEPT !.steps = steps]
        ELSE IF next \in cs.visited
        THEN [cs EXCEPT !.opps = CompleteCycle(edges, cycle, next, cs.opps), !.steps = steps]
        ELSE Walk(edges, prev, next, Append(cycle, next),
                  [cs EXCEPT !.visited = cs.visited \cup {next}], steps + 1))

\* the check pass "Check for negative cycles", from edge i on
RECURSIVE CheckEdges(_, _, _, _)
CheckEdges(edges, dp, cs, i) ==
    IF i > Len(edges) THEN cs
    ELSE IF Relaxes(dp.dist, edges[i])
    THEN With(Walk(edges, dp.prev, edges[i].From, <<edges[i].From>>,
                   [cs EXCEPT !.visited = cs.visited \cup {edges[i].From}], 1),
              LAMBDA walked : CheckEdges(edges, dp, walked, i + 1))
    ELSE CheckEdges(edges, dp, cs, i + 1)

\* the body of the loop over the start vertices with |V| relaxation passes
\* in place of |V| - 1
FromStartExtraPass(vertices, edges, start, opps) ==
    With(RelaxPasses([dist |-> InitDist(vertices, start), prev |-> InitPrev],
                     edges, Len(vertices)),
         LAMBDA dp : CheckEdges(edges, dp, [visited |-> {}, opps |-> opps, steps |-> 0], 1).opps)

\* the body of "for _, start := range graph.Vertices"
FromStart(vertices, edges, start, opps) ==
    With(RelaxPasses([dist |-> InitDist(vertices, start), prev |-> InitPrev],
                     edges, Len(vertices) - 1),
         LAMBDA dp : CheckEdges(edges, dp, [visited |-> {}, opps |-> opps, steps |-> 0], 1).opps)

RECURSIVE FromStarts(_, _, _, _)
FromStarts(vertices, edges, s, opps) ==
    IF s > Len(vertices) THEN opps
    ELSE With(FromStart(vertices, edges, vertices[s], opps),
              LAMBDA found : FromStarts(vertices, edges, s + 1, found))

bellmanFord(vertices, edges) ==
    IF Len(vertices) = 0 THEN <<>> ELSE FromStarts(vertices, edges, 1, <<>>)

(***************************************************************************)
(* monitorAccounts: the pools table and the updates a subscription sends   *)
(***************************************************************************)
Pools == {"USDC-SOL", "SOL-GRASS"}

HardcodedPools ==
    [p \in Pools |->
        IF p = "USDC-SOL" THEN [baseToken |-> "USDC", quoteToken |-> "SOL"]
        ELSE [baseToken |-> "SOL", quoteToken |-> "GRASS"]]

RECURSIVE Pow2(_)
Pow2(i) == IF i = 0 THEN 1 ELSE 2 * Pow2(i - 1)

\* values of the QuoteReserve field of an update
Reserves == {0} \cup {Pow2(i) : i \in 0..MaxReserveExp}

\* values of the BaseReserve field of an update: 0 or the unit, the rates
\* being functions of the quotient of the two reserves
BaseReserves == {0, 1}

\* "Minimum size for Raydium pool state"
MinPoolStateSize == 128

\* the bytes the decoder reads: ten 8-byte fields, the last one data[72:80]
LayoutSize == 80

\* lengths of the data of an update
DataLens == {40, LayoutSize - 1, LayoutSize, MinPoolStateSize - 1, MinPoolStateSize}

\* update.Value.Data: nil, or bytes of some length holding the two reserves
NoData == [len |-> 0 - 1, BaseReserve |-> 0, QuoteReserve |-> 0]
Updates ==
    {NoData} \cup [len : DataLens, BaseReserve : BaseReserves, QuoteReserve : Reserves]

\* no update received and not yet handled
NoUpdate == [len |-> 0 - 2, BaseReserve |-> 0, QuoteReserve |-> 0]

NoState == [ok |-> FALSE, BaseReserve |-> 0, QuoteReserve |-> 0]

\* parseRaydiumPoolState: NoState stands for (nil, error)
parseRaydiumPoolState(data) ==
    IF data.len < MinPoolStateSize THEN NoState
    ELSE [ok |-> TRUE, BaseReserve |-> data.BaseReserve, QuoteReserve |-> data.QuoteReserve]

(***************************************************************************)
(* updateGraphWithPoolState                                                *)
(***************************************************************************)
\* big.Float.Quo panics with ErrNaN when both operands are zero
QuoPanics(x, y) == x = 0 /\ y = 0

\* n / d = (n' / d') * 2^e with 2^(MantissaBits-1) <= n' / d' < 2^MantissaBits
RECURSIVE Normalize(_, _, _)
Normalize(n, d, e) ==
    IF n >= d * Pow2(MantissaBits) THEN Normalize(n, 2 * d, e + 1)
    ELSE IF n < d * Pow2(MantissaBits - 1) THEN Normalize(2 * n, d, e - 1)
    ELSE [n |-> n, d |-> d, e |-> e]

\* the nearest integer to n / d, a tie going to the even one
RoundHalfEven(n, d) ==
    LET m == n \div d
        r == n % d
    IN  IF 2 * r > d \/ (2 * r = d /\ m % 2 = 1) THEN m + 1 ELSE m

\* Float64(): the float nearest to n / d, for n, d > 0.  The quotient big.Float
\* keeps has the 64 bits of its operands; what reaches the float64 has the
\* bits of a float64 significand.
Float64(n, d) ==
    With(Normalize(n, d, 0), LAMBDA s :
        IF s.e >= 0 THEN Num(RoundHalfEven(s.n, s.d) * Pow2(s.e), 1, 0)
        ELSE Num(RoundHalfEven(s.n, s.d), Pow2(0 - s.e), 0))

\* new(big.Float).Quo(x, y).Float64() for x, y not both zero
Quo(x, y) ==
    IF y = 0 THEN PosInfF
    ELSE IF x = 0 THEN ZeroF
    ELSE Float64(x, y)

\* price *= (1 - fee)
ApplyFee(price) ==
    IF IsFinitePositive(price) THEN [price EXCEPT !.k = @ + 1] ELSE price

baseToQuotePrice(st) == ApplyFee(Quo(st.QuoteReserve, st.BaseReserve))
quoteToBasePrice(st) == ApplyFee(Quo(st.BaseReserve, st.QuoteReserve))

\* "Check for invalid rates"
InvalidRate(st) ==
    \/ IsInfOrNaN(NegLog(baseToQuotePrice(st)))
    \/ IsInfOrNaN(NegLog(quoteToBasePrice(st)))

\* "Update vertices if needed"
UpdateVertices(vertices, baseToken, quoteToken) ==
    IF \E i \in 1..Len(vertices) : vertices[i] = baseToken \/ vertices[i] = quoteToken
    THEN vertices
    ELSE vertices \o <<baseToken, quoteToken>>

(***************************************************************************)
(* graph.mu                                                                *)
(***************************************************************************)
NoWriter == "none"
\* a Lock that takes the read side only and so does not wait for readers
CanLockAsReader(m) == m.writer = NoWriter
\* Lock returns once there is no writer and no reader
CanLock(m) == m.writer = NoWriter /\ m.readers = 0
\* an RLock that does not wait for the writer
CanRLockUnguarded(m) == TRUE
\* RLock returns once there is no writer
CanRLock(m) == m.writer = NoWriter

(***************************************************************************)
(* The pool goroutines of monitorAccounts                                  *)
(***************************************************************************)
\* the update decodes to reserves that updateGraphWithPoolState writes as edges
Writes(st) ==
    st.ok /\ ~QuoPanics(st.BaseReserve, st.QuoteReserve) /\ ~InvalidRate(st)

\* edges the updates in flight will still append
PendingEdges(q) ==
    IF pc[q] = "parse" /\ update[q] # NoData /\ Writes(parseRaydiumPoolState(update[q]))
    THEN 2
    ELSE IF pc[q] \in {"lock", "rates"} /\ Writes(state[q])
    THEN 2
    ELSE IF pc[q] \in {"vertices", "edgeAB"} THEN 2
    ELSE IF pc[q] = "edgeBA" THEN 1
    ELSE 0

RECURSIVE SumPending(_)
SumPending(S) ==
    IF S = {} THEN 0
    ELSE LET q == CHOOSE x \in S : TRUE IN PendingEdges(q) + SumPending(S \ {q})

\* solana.PublicKeyFromBase58 with a failure that ends the process (log.Fatalf
\* in place of log.Printf and return)
PoolParseKeyFatal(p) ==
    /\ ~crashed
    /\ pc[p] = "start"
    /\ \E ok \in BOOLEAN :
        /\ pc' = [pc EXCEPT ![p] = IF ok THEN "subscribe" ELSE "done"]
        /\ crashed' = ~ok
    /\ UNCHANGED <<poolInfo, walk, Vertices, Edges, mu, update, state, detPc, opportunities,
                   printed, cancelled>>

\* solana.PublicKeyFromBase58(pubKey)
PoolParseKey(p) ==
    /\ ~crashed
    /\ pc[p] = "start"
    /\ \E ok \in BOOLEAN : pc' = [pc EXCEPT ![p] = IF ok THEN "subscribe" ELSE "done"]
    /\ UNCHANGED <<poolInfo, walk, Vertices, Edges, mu, update, state, detPc, opportunities,
                   printed, cancelled, crashed>>

\* client.AccountSubscribe(poolAccount, rpc.CommitmentConfirmed)
PoolSubscribe(p) ==
    /\ ~crashed
    /\ pc[p] = "subscribe"
    /\ \E ok \in BOOLEAN : pc' = [pc EXCEPT ![p] = IF ok THEN "recv" ELSE "done"]
    /\ UNCHANGED <<poolInfo, walk, Vertices, Edges, mu, update, state, detPc, opportunities,
                   printed, cancelled, crashed>>

\* select: case <-ctx.Done()
PoolCtxDone(p) ==
    /\ ~crashed
    /\ pc[p] = "recv"
    /\ cancelled
    /\ pc' = [pc EXCEPT ![p] = "done"]
    /\ UNCHANGED <<poolInfo, walk, Vertices, Edges, mu, update, state, detPc, opportunities,
                   printed, cancelled, crashed>>

\* select: case update := <-sub.Response(), up to the call of
\* updateGraphWithPoolState
PoolRecv(p) ==
    /\ ~crashed
    /\ pc[p] = "recv"
    /\ \E received \in Updates :
        LET poolState == IF received = NoData THEN NoState ELSE parseRaydiumPoolState(received) IN
        IF ~poolState.ok
        THEN UNCHANGED <<pc, state>>
        ELSE /\ \/ InvalidRate(poolState)
                \/ QuoPanics(poolState.BaseReserve, poolState.QuoteReserve)
                \/ Len(Edges) + SumPending(Pools) + 2 <= 2 * MaxUpdates
             /\ pc' = [pc EXCEPT ![p] = "lock"]
             /\ state' = [state EXCEPT ![p] = poolState]
    /\ UNCHANGED <<poolInfo, walk, Vertices, Edges, mu, update, detPc, opportunities,
                   printed, cancelled, crashed>>

\* select: case update := <-sub.Response(), the receive alone
PoolRecvUpdate(p) ==
    /\ ~crashed
    /\ pc[p] = "recv"
    /\ \E received \in Updates :
        /\ \/ received = NoData
           \/ ~Writes(parseRaydiumPoolState(received))
           \/ Len(Edges) + SumPending(Pools) + 2 <= 2 * MaxUpdates
        /\ update' = [update EXCEPT ![p] = received]
    /\ pc' = [pc EXCEPT ![p] = "parse"]
    /\ UNCHANGED <<poolInfo, walk, Vertices, Edges, mu, state, detPc, opportunities,
                   printed, cancelled, crashed>>

\* a decode step whose error path returns from the goroutine
PoolParseReturns(p) ==
    /\ ~crashed
    /\ pc[p] = "parse"
    /\ LET poolState == IF update[p] = NoData THEN NoState
                        ELSE parseRaydiumPoolState(update[p])
       IN  IF ~poolState.ok
           THEN /\ pc' = [pc EXCEPT ![p] = "done"]
                /\ UNCHANGED state
           ELSE /\ pc' = [pc EXCEPT ![p] = "lock"]
                /\ state' = [state EXCEPT ![p] = poolState]
    /\ update' = [update EXCEPT ![p] = NoUpdate]
    /\ UNCHANGED <<poolInfo, walk, Vertices, Edges, mu, detPc, opportunities,
                   printed, cancelled, crashed>>

\* if update.Value.Data == nil { continue }; poolState, err :=
\* parseRaydiumPoolState(...); if err != nil { continue }
PoolParse(p) ==
    /\ ~crashed
    /\ pc[p] = "parse"
    /\ LET poolState == IF update[p] = NoData THEN NoState
                        ELSE parseRaydiumPoolState(update[p])
       IN  IF ~poolState.ok
           THEN /\ pc' = [pc EXCEPT ![p] = "recv"]
                /\ UNCHANGED state
           ELSE /\ pc' = [pc EXCEPT ![p] = "lock"]
                /\ state' = [state EXCEPT ![p] = poolState]
    /\ update' = [update EXCEPT ![p] = NoUpdate]
    /\ UNCHANGED <<poolInfo, walk, Vertices, Edges, mu, detPc, opportunities,
                   printed, cancelled, crashed>>

\* graph.mu.Lock()
PoolLock(p) ==
    /\ ~crashed
    /\ pc[p] = "lock"
    /\ CanLock(mu)
    /\ mu' = [mu EXCEPT !.writer = p]
    /\ pc' = [pc EXCEPT ![p] = "rates"]
    /\ UNCHANGED <<poolInfo, walk, Vertices, Edges, update, state, detPc, opportunities,
                   printed, cancelled, crashed>>

\* the rates and "Check for invalid rates": the division panics, or the update
\* is discarded (the deferred Unlock runs), or the update goes on
PoolRates(p) ==
    /\ ~crashed
    /\ pc[p] = "rates"
    /\ IF QuoPanics(state[p].BaseReserve, state[p].QuoteReserve)
       THEN /\ crashed' = TRUE
            /\ UNCHANGED <<pc, state, mu>>
       ELSE IF InvalidRate(state[p])
       THEN /\ mu' = [mu EXCEPT !.writer = NoWriter]
            /\ pc' = [pc EXCEPT ![p] = "recv"]
            /\ state' = [state EXCEPT ![p] = NoState]
            /\ UNCHANGED crashed
       ELSE /\ pc' = [pc EXCEPT ![p] = "vertices"]
            /\ UNCHANGED <<state, mu, crashed>>
    /\ UNCHANGED <<poolInfo, walk, Vertices, Edges, update, detPc, opportunities,
                   printed, cancelled>>

\* "Update vertices if needed"
PoolVertices(p) ==
    /\ ~crashed
    /\ pc[p] = "vertices"
    /\ Vertices' = UpdateVertices(Vertices, poolInfo[p].baseToken, poolInfo[p].quoteToken)
    /\ pc' = [pc EXCEPT ![p] = "edgeAB"]
    /\ UNCHANGED <<poolInfo, walk, Edges, mu, update, state, detPc, opportunities,
                   printed, cancelled, crashed>>

\* graph.addEdge(baseToken, quoteToken, baseToQuotePrice)
PoolAddEdgeAB(p) ==
    /\ ~crashed
    /\ pc[p] = "edgeAB"
    /\ Edges' = addEdge(Edges, poolInfo[p].baseToken, poolInfo[p].quoteToken,
                        baseToQuotePrice(state[p]))
    /\ pc' = [pc EXCEPT ![p] = "edgeBA"]
    /\ UNCHANGED <<poolInfo, walk, Vertices, mu, update, state, detPc, opportunities,
                   printed, cancelled, crashed>>

\* graph.addEdge(quoteToken, baseToken, quoteToBasePrice)
PoolAddEdgeBA(p) ==
    /\ ~crashed
    /\ pc[p] = "edgeBA"
    /\ Edges' = addEdge(Edges, poolInfo[p].quoteToken, poolInfo[p].baseToken,
                        quoteToBasePrice(state[p]))
    /\ pc' = [pc EXCEPT ![p] = "unlock"]
    /\ UNCHANGED <<poolInfo, walk, Vertices, mu, update, state, detPc, opportunities,
                   printed, cancelled, crashed>>

\* the deferred graph.mu.Unlock() and the return to the select
PoolUnlock(p) ==
    /\ ~crashed
    /\ pc[p] = "unlock"
    /\ mu' = [mu EXCEPT !.writer = NoWriter]
    /\ pc' = [pc EXCEPT ![p] = "recv"]
    /\ state' = [state EXCEPT ![p] = NoState]
    /\ UNCHANGED <<poolInfo, walk, Vertices, Edges, update, detPc, opportunities,
                   printed, cancelled, crashed>>

\* the context handed to monitorAccounts is cancelled
Cancel ==
    /\ ~crashed
    /\ ~cancelled
    /\ cancelled' = TRUE
    /\ UNCHANGED <<poolInfo, walk, Vertices, Edges, mu, pc, update, state, detPc, opportunities,
                   printed, crashed>>

(***************************************************************************)
(* detectArbitrage                                                         *)
(***************************************************************************)
\* for range ticker.C
DetTick ==
    /\ ~crashed
    /\ detPc = "tick"
    /\ detPc' = "rlock"
    /\ UNCHANGED <<poolInfo, walk, Vertices, Edges, mu, pc, update, state, opportunities,
                   printed, cancelled, crashed>>

\* graph.mu.RLock()
DetRLock ==
    /\ ~crashed
    /\ detPc = "rlock"
    /\ CanRLock(mu)
    /\ mu' = [mu EXCEPT !.readers = @ + 1]
    /\ detPc' = "checkV"
    /\ UNCHANGED <<poolInfo, walk, Vertices, Edges, pc, update, state, opportunities,
                   printed, cancelled, crashed>>

\* if len(graph.Vertices) < 2 { RUnlock; continue }
DetCheckVertices ==
    /\ ~crashed
    /\ detPc = "checkV"
    /\ IF Len(Vertices) < 2
       THEN /\ mu' = [mu EXCEPT !.readers = @ - 1]
            /\ detPc' = "tick"
       ELSE /\ detPc' = "checkE"
            /\ UNCHANGED mu
    /\ UNCHANGED <<poolInfo, walk, Vertices, Edges, pc, update, state, opportunities,
                   printed, cancelled, crashed>>

\* an edge check that lets a graph of one edge through
DetCheckEdgesAny ==
    /\ ~crashed
    /\ detPc = "checkE"
    /\ IF Len(Edges) < 1
       THEN /\ mu' = [mu EXCEPT !.readers = @ - 1]
            /\ detPc' = "tick"
       ELSE /\ detPc' = "search"
            /\ UNCHANGED mu
    /\ UNCHANGED <<poolInfo, walk, Vertices, Edges, pc, update, state, opportunities,
                   printed, cancelled, crashed>>

\* if len(graph.Edges) < 2 { RUnlock; continue }
DetCheckEdges ==
    /\ ~crashed
    /\ detPc = "checkE"
    /\ IF Len(Edges) < 2
       THEN /\ mu' = [mu EXCEPT !.readers = @ - 1]
            /\ detPc' = "tick"
       ELSE /\ detPc' = "search"
            /\ UNCHANGED mu
    /\ UNCHANGED <<poolInfo, walk, Vertices, Edges, pc, update, state, opportunities,
                   printed, cancelled, crashed>>

\* a search that consumes the last edge of graph.Edges
DetSearchConsuming ==
    /\ ~crashed
    /\ detPc = "search"
    /\ opportunities' = bellmanFord(Vertices, Edges)
    /\ Edges' = SubSeq(Edges, 1, Len(Edges) - 1)
    /\ detPc' = "runlock"
    /\ UNCHANGED <<poolInfo, walk, Vertices, mu, pc, update, state, printed, cancelled, crashed>>

\* opportunities := bellmanFord(graph)
DetSearch ==
    /\ ~crashed
    /\ detPc = "search"
    /\ opportunities' = bellmanFord(Vertices, Edges)
    /\ detPc' = "runlock"
    /\ UNCHANGED <<poolInfo, walk, Vertices, Edges, mu, pc, update, state, printed, cancelled, crashed>>

\* graph.mu.RUnlock()
DetRUnlock ==
    /\ ~crashed
    /\ detPc = "runlock"
    /\ mu' = [mu EXCEPT !.readers = @ - 1]
    /\ detPc' = "report"
    /\ UNCHANGED <<poolInfo, walk, Vertices, Edges, pc, update, state, opportunities,
                   printed, cancelled, crashed>>

\* printArbitrageOpportunities: the paths of 2 tokens or more
PrintedPaths(opps) == SelectSeq(opps, LAMBDA path : Len(path) >= 2)

\* if len(opportunities) > 0 { printArbitrageOpportunities(opportunities) }
DetReport ==
    /\ ~crashed
    /\ detPc = "report"
    /\ printed' = IF Len(opportunities) > 0 THEN PrintedPaths(opportunities) ELSE printed
    /\ detPc' = "tick"
    /\ UNCHANGED <<poolInfo, walk, Vertices, Edges, mu, pc, update, state, opportunities,
                   cancelled, crashed>>

(***************************************************************************)
(* The program: main starts monitorAccounts and runs detectArbitrage       *)
(***************************************************************************)
Init ==
    /\ poolInfo = HardcodedPools
    /\ Vertices = <<>>
    /\ Edges = <<>>
    /\ mu = [writer |-> NoWriter, readers |-> 0]
    /\ pc = [p \in Pools |-> "start"]
    /\ update = [p \in Pools |-> NoUpdate]
    /\ state = [p \in Pools |-> NoState]
    /\ detPc = "tick"
    /\ opportunities = <<>>
    /\ printed = <<>>
    /\ cancelled = FALSE
    /\ crashed = FALSE
    /\ walk = NoWalk

PoolStep(p) ==
    \/ PoolParseKey(p)
    \/ PoolSubscribe(p)
    \/ PoolCtxDone(p)
    \/ PoolRecv(p)
    \/ PoolLock(p)
    \/ PoolRates(p)
    \/ PoolVertices(p)
    \/ PoolAddEdgeAB(p)
    \/ PoolAddEdgeBA(p)
    \/ PoolUnlock(p)

DetStep ==
    \/ DetTick
    \/ DetRLock
    \/ DetCheckVertices
    \/ DetCheckEdges
    \/ DetSearch
    \/ DetRUnlock
    \/ DetReport

Next ==
    \/ \E p \in Pools : PoolStep(p)
    \/ DetStep
    \/ Cancel

Spec == Init /\ [][Next]_vars

(***************************************************************************)
(* bellmanFord on its own: detectArbitrage stands at the call of           *)
(* bellmanFord with a graph drawn from the snapshots below.                *)
(***************************************************************************)
\* the legs of the triangle USDC -> SOL -> GRASS -> USDC at the rate 2 or 3/10,
\* and the chord USDC -> GRASS against the last leg at the rate 2
ForwardLegs == {<<"USDC", "SOL">>, <<"SOL", "GRASS">>, <<"GRASS", "USDC">>}

SnapEdgeSpecs ==
    {[from |-> l[1], to |-> l[2], rate |-> r] :
        l \in ForwardLegs, r \in {Num(2, 1, 0), Num(3, 10, 0)}}
    \cup {[from |-> "USDC", to |-> "GRASS", rate |-> Num(2, 1, 0)]}

SnapEdgeLists == UNION {[1..m -> SnapEdgeSpecs] : m \in 0..MaxEdges}

\* the edges addEdge builds from a list of (from, to, rate)
RECURSIVE BuildEdges(_, _)
BuildEdges(specs, i) ==
    IF i = 0 THEN <<>>
    ELSE addEdge(BuildEdges(specs, i - 1), specs[i].from, specs[i].to, specs[i].rate)

SnapVertices ==
    {<<>>, <<"USDC">>, <<"USDC", "SOL">>, <<"USDC", "SOL", "GRASS">>}

InitBF ==
    /\ poolInfo = HardcodedPools
    /\ Vertices \in SnapVertices
    /\ \E specs \in SnapEdgeLists : Edges = BuildEdges(specs, Len(specs))
    /\ mu = [writer |-> NoWriter, readers |-> 1]
    /\ pc = [p \in Pools |-> "done"]
    /\ update = [p \in Pools |-> NoUpdate]
    /\ state = [p \in Pools |-> NoState]
    /\ detPc = "search"
    /\ opportunities = <<>>
    /\ printed = <<>>
    /\ cancelled = FALSE
    /\ crashed = FALSE
    /\ walk = NoWalk

NextBF ==
    \/ DetSearch
    \/ DetRUnlock
    \/ DetReport

SpecBF == InitBF /\ [][NextBF]_vars

(***************************************************************************)
(* Closed walks of a snapshot, for the statements about bellmanFord        *)
(***************************************************************************)
\* the token sequences without repetition, each standing for the closed walk
\* c[1] -> c[2] -> ... -> c[m] -> c[1]
SimpleCycles ==
    {c \in UNION {[1..m -> Tokens] : m \in 1..Cardinality(Tokens)} :
        \A i, j \in 1..Len(c) : i # j => c[i] # c[j]}

NextOnCycle(c, i) == c[(i % Len(c)) + 1]

\* every leg of c is an edge
ClosedWalk(edges, c) ==
    \A i \in 1..Len(c) :
        \E j \in 1..Len(edges) : edges[j].From = c[i] /\ edges[j].To = NextOnCycle(c, i)

\* the highest rate among the edges from -> to from edge i on, best when none
RECURSIVE BestRate(_, _, _, _, _)
BestRate(edges, from, to, i, best) ==
    IF i > Len(edges) THEN best
    ELSE IF edges[i].From = from /\ edges[i].To = to /\ Gt(edges[i].Rate, best)
    THEN BestRate(edges, from, to, i + 1, edges[i].Rate)
    ELSE BestRate(edges, from, to, i + 1, best)

\* the product of the best rates of the legs 1..i of c
RECURSIVE RateProduct(_, _, _)
RateProduct(edges, c, i) ==
    IF i = 0 THEN OneF
    ELSE Mul(RateProduct(edges, c, i - 1),
             BestRate(edges, c[i], NextOnCycle(c, i), 1, ZeroF))

\* some choice of one edge per leg of c has a rate product above 1: the choice
\* of the best edge of every leg has
ProfitableWalk(edges, c) ==
    ClosedWalk(edges, c) /\ Gt(RateProduct(edges, c, Len(c)), OneF)

SeqRange(q) == {q[i] : i \in 1..Len(q)}

EndpointsAreVertices ==
    \A j \in 1..Len(Edges) :
        InVertices(Vertices, Edges[j].From) /\ InVertices(Vertices, Edges[j].To)

\* bellmanFord has returned and the graph it read is still the graph
SearchDone == detPc = "runlock"

(***************************************************************************)
(* C1.  A snapshot whose edges hold a closed walk with a rate product      *)
(* above 1 makes bellmanFord return a cycle on that walk's vertices.       *)
(* Stated for the snapshots whose edge endpoints are all vertices, and in  *)
(* the weakest reading: some returned cycle has the walk's vertex set.     *)
(***************************************************************************)
C1_ProfitableWalkReported ==
    (SearchDone /\ EndpointsAreVertices) =>
        \A c \in SimpleCycles :
            ProfitableWalk(Edges, c) =>
                \E i \in 1..Len(opportunities) :
                    SeqRange(opportunities[i]) = SeqRange(c)

(***************************************************************************)
(* C2.  A snapshot in which no closed walk has a rate product above 1      *)
(* makes bellmanFord return no opportunity.  (A closed walk with a product *)
(* above 1 contains a simple one, so the simple cycles decide.)            *)
(***************************************************************************)
NoProfitableWalk == \A c \in SimpleCycles : ~ProfitableWalk(Edges, c)

C2_NoWalkNoOpportunity ==
    (SearchDone /\ NoProfitableWalk) => opportunities = <<>>

\* the search ran on three vertices whose edges close a three-leg walk, none
\* of the closed walks pays, and nothing was returned
C2_Witness ==
    /\ SearchDone
    /\ Len(Vertices) = 3
    /\ ClosedWalk(Edges, <<"USDC", "SOL", "GRASS">>)
    /\ NoProfitableWalk
    /\ opportunities = <<>>

(***************************************************************************)
(* C3.  Every cycle bellmanFord returns is a closed walk of the snapshot   *)
(* in trading order: it ends where it starts, each consecutive pair        *)
(* (path[i], path[i+1]) is an edge From = path[i], To = path[i+1], and the *)
(* product of the leg rates is above 1.  Stated for the snapshots whose    *)
(* edge endpoints are all vertices.                                        *)
(***************************************************************************)
ForwardWalk(edges, path) ==
    /\ Len(path) >= 2
    /\ path[1] = path[Len(path)]
    /\ \A i \in 1..(Len(path) - 1) : FindEdge(edges, path[i], path[i + 1], 1) # 0
    /\ Gt(CycleAmount(edges, path, 1, OneF), OneF)

C3_ReturnedCyclesAreForwardWalks ==
    (SearchDone /\ EndpointsAreVertices) =>
        \A i \in 1..Len(opportunities) : ForwardWalk(Edges, opportunities[i])

(***************************************************************************)
(* The graph between two updates, for the statements about pool updates    *)
(***************************************************************************)
\* no updateGraphWithPoolState call is under way
NoUpdateUnderWay == mu.writer = NoWriter

EdgeCount(from, to) ==
    Cardinality({j \in 1..Len(Edges) : Edges[j].From = from /\ Edges[j].To = to})

\* positions of a pool goroutine inside the mutating section, after Lock
Mutating == {"rates", "vertices", "edgeAB", "edgeBA", "unlock"}

\* positions of detectArbitrage at a read of graph.Vertices or graph.Edges
Reading == {"checkV", "checkE", "search"}

(***************************************************************************)
(* C4.  After any sequence of successful updateGraphWithPoolState calls    *)
(* the edge collection holds at most one edge for each ordered (from, to)  *)
(* pair: a later update replaces the earlier edge pair.                    *)
(***************************************************************************)
C4_OneEdgePerDirection ==
    NoUpdateUnderWay =>
        \A from, to \in Tokens : EdgeCount(from, to) <= 1

(***************************************************************************)
(* C5.  After any sequence of pool updates every token passed to a         *)
(* successful updateGraphWithPoolState call, that is every edge endpoint,  *)
(* is a member of graph.Vertices.                                          *)
(***************************************************************************)
C5_UpdatedTokensAreVertices == NoUpdateUnderWay => EndpointsAreVertices

(***************************************************************************)
(* C6.  In every graph state the detection loop reads, each pool has as    *)
(* many base -> quote edges as quote -> base edges: it never sees one edge *)
(* of an upsert without the other.                                         *)
(***************************************************************************)
C6_NoPartialUpsertObserved ==
    detPc \in Reading =>
        \A p \in Pools :
            EdgeCount(poolInfo[p].baseToken, poolInfo[p].quoteToken)
                = EdgeCount(poolInfo[p].quoteToken, poolInfo[p].baseToken)

\* the detection loop is searching a graph with edges while a pool goroutine
\* holds a decoded update and waits for the lock
C6_Witness ==
    /\ detPc = "search"
    /\ Len(Edges) >= 2
    /\ \E p \in Pools : pc[p] = "lock" /\ ~InvalidRate(state[p])

(***************************************************************************)
(* C7.  No pool goroutine is inside the mutating section of                *)
(* updateGraphWithPoolState while the detection loop reads the graph, and  *)
(* no two pool goroutines are inside it together.                          *)
(***************************************************************************)
C7_MutualExclusion ==
    /\ ~(detPc \in Reading /\ \E p \in Pools : pc[p] \in Mutating)
    /\ \A p, q \in Pools : (pc[p] \in Mutating /\ pc[q] \in Mutating) => p = q

\* one pool goroutine is between its two addEdge calls while the other waits
\* for the lock and the detection loop waits for the read lock
C7_Witness ==
    /\ detPc = "rlock"
    /\ \E p, q \in Pools : pc[p] = "edgeBA" /\ pc[q] = "lock"

(***************************************************************************)
(* C8.  The detection loop has released the read lock before bellmanFord   *)
(* starts: bellmanFord never runs while the read lock is held.             *)
(***************************************************************************)
C8_SearchWithoutReadLock == detPc = "search" => mu.readers = 0

(***************************************************************************)
(* C9.  Once the cancellation signal is raised, every pool goroutine and   *)
(* the detection loop eventually terminate.                                *)
(***************************************************************************)
C9_CancelTerminatesAll ==
    cancelled ~> ((\A p \in Pools : pc[p] = "done") /\ detPc = "done")

(***************************************************************************)
(* C10.  An update with a zero reserve (either one, or both) is discarded: *)
(* the step of updateGraphWithPoolState that computes its rates leaves     *)
(* graph.Vertices and graph.Edges as they are, returns the goroutine to    *)
(* its select and does not crash.                                          *)
(***************************************************************************)
ZeroReserve(st) == st.BaseReserve = 0 \/ st.QuoteReserve = 0

C10_ZeroReserveDiscarded ==
    [][\A p \in Pools :
          (pc[p] = "rates" /\ ZeroReserve(state[p]) /\ (pc'[p] # "rates" \/ crashed'))
              => (Vertices' = Vertices /\ Edges' = Edges /\ pc'[p] = "recv" /\ ~crashed')]_vars

(***************************************************************************)
(* The select loop of the pool goroutines on its own, receive and decode   *)
(* as two steps: every pool is subscribed and waits for an update.         *)
(***************************************************************************)
InitRecv ==
    /\ poolInfo = HardcodedPools
    /\ Vertices = <<>>
    /\ Edges = <<>>
    /\ mu = [writer |-> NoWriter, readers |-> 0]
    /\ pc = [p \in Pools |-> "recv"]
    /\ update = [p \in Pools |-> NoUpdate]
    /\ state = [p \in Pools |-> NoState]
    /\ detPc = "tick"
    /\ opportunities = <<>>
    /\ printed = <<>>
    /\ cancelled = FALSE
    /\ crashed = FALSE
    /\ walk = NoWalk

NextRecv ==
    \E p \in Pools :
        \/ PoolRecvUpdate(p)
        \/ PoolParse(p)
        \/ PoolLock(p)
        \/ PoolRates(p)
        \/ PoolVertices(p)
        \/ PoolAddEdgeAB(p)
        \/ PoolAddEdgeBA(p)
        \/ PoolUnlock(p)

SpecRecv == InitRecv /\ [][NextRecv]_vars

\* pool p takes its decode step
Decodes(p) == pc[p] = "parse" /\ pc'[p] # "parse"

(***************************************************************************)
(* C11.  parseRaydiumPoolState returns a pool snapshot for every input of  *)
(* at least the layout size (80 bytes, ten 8-byte fields) and fails, with  *)
(* no snapshot, for every shorter input.                                   *)
(***************************************************************************)
C11_DecodesFromLayoutSize ==
    [][\A p \in Pools :
          (Decodes(p) /\ update[p] # NoData) =>
              IF update[p].len >= LayoutSize
              THEN pc'[p] = "lock" /\ state'[p].ok
              ELSE pc'[p] = "recv" /\ state'[p] = state[p]]_vars

(***************************************************************************)
(* detectArbitrage on its own: the loop waits for a tick with the graph a  *)
(* snapshot that no pool goroutine changes.                                *)
(***************************************************************************)
InitTick ==
    /\ poolInfo = HardcodedPools
    /\ Vertices \in SnapVertices
    /\ \E specs \in SnapEdgeLists : Edges = BuildEdges(specs, Len(specs))
    /\ mu = [writer |-> NoWriter, readers |-> 0]
    /\ pc = [p \in Pools |-> "done"]
    /\ update = [p \in Pools |-> NoUpdate]
    /\ state = [p \in Pools |-> NoState]
    /\ detPc = "tick"
    /\ opportunities = <<>>
    /\ printed = <<>>
    /\ cancelled = FALSE
    /\ crashed = FALSE
    /\ walk = NoWalk

NextTick == DetStep

SpecTick == InitTick /\ [][NextTick]_vars

\* the thresholds of detectArbitrage
EnoughData == Len(Vertices) >= 2 /\ Len(Edges) >= 2

\* the tick ends without a call of bellmanFord
SkipsRun == detPc \in {"checkV", "checkE"} /\ detPc' = "tick"

(***************************************************************************)
(* C12.  A tick runs the detector exactly when the graph has at least 2    *)
(* vertices and at least 2 edges; a tick below a threshold is skipped and  *)
(* reports nothing; a tick that runs hands the opportunities to the        *)
(* reporter exactly when there is at least one.                            *)
(***************************************************************************)
C12_TickRunsOnEnoughData ==
    [][/\ detPc' = "search" => EnoughData'
       /\ SkipsRun => (~EnoughData /\ printed' = printed /\ opportunities' = opportunities)
       /\ (detPc = "report" /\ detPc' = "tick") =>
              IF Len(opportunities) > 0
              THEN printed' = PrintedPaths(opportunities)
              ELSE printed' = printed]_vars

\* a tick has run on enough data and the reporter wrote its opportunities
C12_Witness ==
    /\ detPc = "tick"
    /\ EnoughData
    /\ opportunities # <<>>
    /\ printed = PrintedPaths(opportunities)
    /\ printed # <<>>

(***************************************************************************)
(* updateGraphWithPoolState on its own: every pool goroutine has decoded   *)
(* an update and calls updateGraphWithPoolState with the tokens of its     *)
(* entry of the pools table, for any table over the tokens.                *)
(***************************************************************************)
PoolTables == [Pools -> [baseToken : Tokens, quoteToken : Tokens]]

DecodedStates ==
    {parseRaydiumPoolState(u) : u \in {v \in Updates : v.len >= MinPoolStateSize}}

InitUpsert ==
    /\ poolInfo \in PoolTables
    /\ Vertices = <<>>
    /\ Edges = <<>>
    /\ mu = [writer |-> NoWriter, readers |-> 0]
    /\ pc = [p \in Pools |-> "lock"]
    /\ update = [p \in Pools |-> NoUpdate]
    /\ state \in [Pools -> DecodedStates]
    /\ detPc = "tick"
    /\ opportunities = <<>>
    /\ printed = <<>>
    /\ cancelled = FALSE
    /\ crashed = FALSE
    /\ walk = NoWalk

NextUpsert ==
    \E p \in Pools :
        \/ PoolLock(p)
        \/ PoolRates(p)
        \/ PoolVertices(p)
        \/ PoolAddEdgeAB(p)
        \/ PoolAddEdgeBA(p)
        \/ PoolUnlock(p)

SpecUpsert == InitUpsert /\ [][NextUpsert]_vars

(***************************************************************************)
(* C13.  graph.Vertices holds no token more than once, also after the      *)
(* update of a pool whose base and quote token are the same identifier.    *)
(***************************************************************************)
C13_NoDuplicateVertices ==
    \A i, j \in 1..Len(Vertices) : Vertices[i] = Vertices[j] => i = j

(***************************************************************************)
(* C14.  When one pool task fails to parse its key or to subscribe, only   *)
(* that task terminates: the step changes nothing but the position of     *)
(* that task, the process goes on, and the terminated task holds no lock  *)
(* that another pool task or the detection loop waits for.                *)
(***************************************************************************)
FailsToStart(p) == pc[p] \in {"start", "subscribe"} /\ pc'[p] = "done"

C14_StartFailureEndsOnlyThatTask ==
    [][\A p \in Pools :
          /\ FailsToStart(p) =>
                /\ \A q \in Pools \ {p} : pc'[q] = pc[q]
                /\ UNCHANGED <<poolInfo, Vertices, Edges, mu, update, state, detPc,
                               opportunities, printed, cancelled, crashed>>
                /\ ~crashed'
          /\ pc[p] = "done" => mu.writer # p]_vars

C14_Witness ==
    \E p, q \in Pools :
        /\ p # q
        /\ pc[p] = "done"
        /\ ~cancelled
        /\ ~crashed
        /\ pc[q] = "unlock"
        /\ \E i \in 1..Len(Edges) : Edges[i].From = poolInfo[q].baseToken
        /\ detPc = "rlock"

(***************************************************************************)
(* C15.  An update whose data is shorter than the minimum layout is        *)
(* discarded: graph.Vertices and graph.Edges are unchanged, and the pool   *)
(* task is back at its select, where it takes the next update.             *)
(***************************************************************************)
ShortData(p) == update[p] # NoData /\ update[p] # NoUpdate /\ update[p].len < MinPoolStateSize

C15_ShortDataDiscarded ==
    [][\A p \in Pools :
          (Decodes(p) /\ ShortData(p)) =>
              /\ Vertices' = Vertices
              /\ Edges' = Edges
              /\ state' = state
              /\ pc'[p] = "recv"
              /\ ~crashed']_vars

C15_Witness ==
    \E p \in Pools :
        /\ pc[p] = "parse"
        /\ ShortData(p)
        /\ Len(Edges) >= 2
        /\ ~crashed

(***************************************************************************)
(* C16.  bellmanFord on a graph of zero or one vertex returns an empty     *)
(* result, whatever edges the graph holds.                                 *)
(***************************************************************************)
C16_FewVerticesNoResult ==
    (SearchDone /\ Len(Vertices) <= 1) => (opportunities = <<>> /\ ~crashed)

C16_Witness ==
    /\ SearchDone
    /\ Len(Vertices) = 1
    /\ \E i \in 1..Len(Edges) : Edges[i].From = Vertices[1] /\ Gt(Edges[i].Rate, OneF)
    /\ opportunities = <<>>

(***************************************************************************)
(* updateGraphWithPoolState over reserves up to and beyond what a float64  *)
(* significand holds: both pool goroutines have decoded an update.         *)
(***************************************************************************)
LargeReserves ==
    {1, 2, 3, Pow2(MantissaBits) - 1, Pow2(MantissaBits), Pow2(MantissaBits) + 1,
     Pow2(MantissaBits) + 2}

RateStates == [ok : {TRUE}, BaseReserve : {1, 3}, QuoteReserve : LargeReserves]

InitRates ==
    /\ poolInfo = HardcodedPools
    /\ Vertices = <<>>
    /\ Edges = <<>>
    /\ mu = [writer |-> NoWriter, readers |-> 0]
    /\ pc = [p \in Pools |-> "lock"]
    /\ update = [p \in Pools |-> NoUpdate]
    /\ state \in [Pools -> RateStates]
    /\ detPc = "tick"
    /\ opportunities = <<>>
    /\ printed = <<>>
    /\ cancelled = FALSE
    /\ crashed = FALSE
    /\ walk = NoWalk

NextRates == NextUpsert

SpecRates == InitRates /\ [][NextRates]_vars

(***************************************************************************)
(* C17.  For a fixed base reserve, a larger quote reserve gives a strictly *)
(* larger base-to-quote rate and a strictly smaller quote-to-base rate.    *)
(* Stated of an update that has written its two edges and of the update    *)
(* of the other pool, decoded and waiting for the lock, with the same base *)
(* reserve.                                                                *)
(***************************************************************************)
\* the rates of the two edges the update of p has appended
WrittenAB(p) == Edges[Len(Edges) - 1].Rate
WrittenBA(p) == Edges[Len(Edges)].Rate

C17_RatesStrictlyMonotonic ==
    \A p, q \in Pools :
        (/\ pc[p] = "unlock" /\ pc[q] = "lock"
         /\ state[p].BaseReserve = state[q].BaseReserve
         /\ state[p].BaseReserve > 0
         /\ 0 < state[p].QuoteReserve
         /\ state[p].QuoteReserve < state[q].QuoteReserve)
        => /\ Gt(baseToQuotePrice(state[q]), WrittenAB(p))
           /\ Gt(WrittenBA(p), quoteToBasePrice(state[q]))

(***************************************************************************)
(* C18.  A detection tick leaves graph.Vertices and graph.Edges unchanged: *)
(* no step of detectArbitrage changes them, and every step that does is    *)
(* the step of a pool task inside updateGraphWithPoolState, holding the    *)
(* write lock.                                                             *)
(***************************************************************************)
GraphChanges == Vertices' # Vertices \/ Edges' # Edges

C18_DetectionLeavesGraph ==
    [][/\ (detPc' # detPc \/ opportunities' # opportunities \/ printed' # printed)
            => ~GraphChanges
       /\ GraphChanges =>
            \E p \in Pools : pc[p] \in Mutating /\ pc'[p] # pc[p] /\ mu.writer = p]_vars

C18_Witness ==
    /\ detPc = "report"
    /\ Len(Vertices) >= 2
    /\ Len(Edges) >= 2
    /\ ~crashed

(***************************************************************************)
(* The walk along prev on its own: the check pass has found an edge that   *)
(* still relaxes and follows prev from edge.From, one iteration of the     *)
(* loop "for { next := prev[current] ... }" a step.  prev is any map over  *)
(* the tokens, and visited holds current and any tokens earlier walks of   *)
(* the same start have marked.                                             *)
(***************************************************************************)
PrevMaps == [Tokens -> Tokens \cup {NoToken}]

\* an iteration that follows prev without marking the token visited
WalkStepUnmarked ==
    /\ ~walk.done
    /\ LET next == walk.prev[walk.current] IN
        IF next = NoToken \/ next \in walk.visited
        THEN walk' = [walk EXCEPT !.steps = @ + 1, !.done = TRUE]
        ELSE walk' = [walk EXCEPT !.steps = @ + 1, !.current = next]
    /\ UNCHANGED <<poolInfo, Vertices, Edges, mu, pc, update, state, detPc, opportunities,
                   printed, cancelled, crashed>>

\* one iteration: break on next == "" or on visited[next] (the cycle, if any,
\* is recorded before the break), else mark next and move to it
WalkStep ==
    /\ ~walk.done
    /\ LET next == walk.prev[walk.current] IN
        IF next = NoToken \/ next \in walk.visited
        THEN walk' = [walk EXCEPT !.steps = @ + 1, !.done = TRUE]
        ELSE walk' = [walk EXCEPT !.steps = @ + 1, !.current = next,
                                  !.visited = @ \cup {next}]
    /\ UNCHANGED <<poolInfo, Vertices, Edges, mu, pc, update, state, detPc, opportunities,
                   printed, cancelled, crashed>>

InitWalk ==
    /\ poolInfo = HardcodedPools
    /\ Vertices = <<>>
    /\ Edges = <<>>
    /\ mu = [writer |-> NoWriter, readers |-> 1]
    /\ pc = [p \in Pools |-> "done"]
    /\ update = [p \in Pools |-> NoUpdate]
    /\ state = [p \in Pools |-> NoState]
    /\ detPc = "search"
    /\ opportunities = <<>>
    /\ printed = <<>>
    /\ cancelled = FALSE
    /\ crashed = FALSE
    /\ \E prev \in PrevMaps, current \in Tokens, visited \in SUBSET Tokens :
          walk = [prev |-> prev, current |-> current, visited |-> visited \cup {current},
                  steps |-> 0, done |-> FALSE]

NextWalk == WalkStep

SpecWalk == InitWalk /\ [][NextWalk]_vars

(***************************************************************************)
(* C19.  The walk along prev ends after at most as many iterations as      *)
(* there are tokens, whatever prev holds: chains that run into a cycle and *)
(* chains that end at a token without predecessor.                         *)
(***************************************************************************)
C19_WalkBounded ==
    /\ walk.steps <= Cardinality(Tokens)
    /\ walk.steps = Cardinality(Tokens) => walk.done

C19_Witness ==
    /\ walk.done
    /\ walk.steps = Cardinality(Tokens)
    /\ \A t \in Tokens : walk.prev[t] # NoToken
    /\ walk.visited = Tokens

(***************************************************************************)
(* C20.  The list bellmanFord returns holds no two cycles that are the     *)
(* same cycle under rotation.  A returned cycle c is closed, c[1] being    *)
(* repeated at its end; its rotations start at another of its tokens.      *)
(***************************************************************************)
\* the closed cycle c started at its k-th token
Rotation(c, k) ==
    LET m == Len(c) - 1 IN
    [i \in 1..(m + 1) |-> c[((k - 1 + i - 1) % m) + 1]]

SameCycle(c1, c2) ==
    /\ Len(c1) = Len(c2)
    /\ Len(c1) >= 2
    /\ \E k \in 1..(Len(c1) - 1) : Rotation(c1, k) = c2

C20_NoCycleTwice ==
    SearchDone =>
        \A i, j \in 1..Len(opportunities) :
            i < j => ~SameCycle(opportunities[i], opportunities[j])

(***************************************************************************)
(* Sequences of updateGraphWithPoolState calls on the pools of a triangle  *)
(* of tokens, each call as a whole under graph.mu, with the detection loop *)
(* running between them.                                                   *)
(***************************************************************************)
MaxCalls == 4

CallStates == [ok : {TRUE}, BaseReserve : {1, 2}, QuoteReserve : {1, 2}]

\* updateGraphWithPoolState(graph, st, baseToken, quoteToken) from Lock to the
\* deferred Unlock, for reserves that give valid rates
updateGraphWithPoolState(st, baseToken, quoteToken) ==
    /\ ~crashed
    /\ CanLock(mu)
    /\ Len(Edges) + 2 <= 2 * MaxCalls
    /\ ~QuoPanics(st.BaseReserve, st.QuoteReserve)
    /\ ~InvalidRate(st)
    /\ Vertices' = UpdateVertices(Vertices, baseToken, quoteToken)
    /\ Edges' = addEdge(addEdge(Edges, baseToken, quoteToken, baseToQuotePrice(st)),
                        quoteToken, baseToken, quoteToBasePrice(st))
    /\ UNCHANGED <<poolInfo, walk, mu, pc, update, state, detPc, opportunities,
                   printed, cancelled, crashed>>

InitSeq ==
    /\ poolInfo = HardcodedPools
    /\ Vertices = <<>>
    /\ Edges = <<>>
    /\ mu = [writer |-> NoWriter, readers |-> 0]
    /\ pc = [p \in Pools |-> "done"]
    /\ update = [p \in Pools |-> NoUpdate]
    /\ state = [p \in Pools |-> NoState]
    /\ detPc = "tick"
    /\ opportunities = <<>>
    /\ printed = <<>>
    /\ cancelled = FALSE
    /\ crashed = FALSE
    /\ walk = NoWalk

NextSeq ==
    \/ \E leg \in ForwardLegs, st \in CallStates :
          updateGraphWithPoolState(st, leg[1], leg[2])
    \/ DetStep

SpecSeq == InitSeq /\ [][NextSeq]_vars

(***************************************************************************)
(* C21.  Every cycle the detector reports is profitable at current rates:  *)
(* the product, along the reported path, of the rates the most recent      *)
(* update of each (from, to) pair has written is above 1.  addEdge         *)
(* appends, so the most recent rate of a pair is that of its last edge.    *)
(***************************************************************************)
\* the rate of the last edge from -> to from edge i on, rate when none
RECURSIVE LastRate(_, _, _, _, _)
LastRate(edges, from, to, i, rate) ==
    IF i > Len(edges) THEN rate
    ELSE IF edges[i].From = from /\ edges[i].To = to
    THEN LastRate(edges, from, to, i + 1, edges[i].Rate)
    ELSE LastRate(edges, from, to, i + 1, rate)

\* the product of the current rates of the legs i.. of path, 0 when a leg is
\* no edge
RECURSIVE CurrentAmount(_, _, _)
CurrentAmount(edges, path, i) ==
    IF i > Len(path) - 1 THEN OneF
    ELSE With(LastRate(edges, path[i], path[i + 1], 1, ZeroF), LAMBDA rate :
         With(CurrentAmount(edges, path, i + 1), LAMBDA rest :
              IF rate = ZeroF \/ rest = ZeroF THEN ZeroF ELSE Mul(rate, rest)))

C21_ReportedCyclesPayAtCurrentRates ==
    SearchDone =>
        \A i \in 1..Len(opportunities) :
            Gt(CurrentAmount(Edges, opportunities[i], 1), OneF)

(***************************************************************************)
(* The program with a single pool feeding the graph: one pool goroutine    *)
(* is at its select, the other has terminated before its first update.     *)
(***************************************************************************)
InitPool ==
    /\ poolInfo = HardcodedPools
    /\ Vertices = <<>>
    /\ Edges = <<>>
    /\ mu = [writer |-> NoWriter, readers |-> 0]
    /\ \E p \in Pools : pc = [q \in Pools |-> IF q = p THEN "recv" ELSE "done"]
    /\ update = [p \in Pools |-> NoUpdate]
    /\ state = [p \in Pools |-> NoState]
    /\ detPc = "tick"
    /\ opportunities = <<>>
    /\ printed = <<>>
    /\ cancelled = FALSE
    /\ crashed = FALSE
    /\ walk = NoWalk

NextPool ==
    \/ \E p \in Pools :
          \/ PoolRecv(p)
          \/ PoolLock(p)
          \/ PoolRates(p)
          \/ PoolVertices(p)
          \/ PoolAddEdgeAB(p)
          \/ PoolAddEdgeBA(p)
          \/ PoolUnlock(p)
    \/ DetStep

SpecPool == InitPool /\ [][NextPool]_vars

(***************************************************************************)
(* C22.  A graph fed by a single pool never produces a reported            *)
(* opportunity, whatever valid reserves its updates carry: nothing is      *)
(* returned by bellmanFord and nothing is printed, also when the rates of  *)
(* two different updates of the pool would multiply to more than 1.        *)
(***************************************************************************)
C22_SinglePoolNeverReports == opportunities = <<>> /\ printed = <<>>

\* the search ran on the edges of two updates of the pool, and the best rates
\* of the two directions, taken across the updates, multiply to more than 1
C22_Witness ==
    /\ SearchDone
    /\ Len(Edges) >= 4
    /\ \E c \in SimpleCycles : Len(c) = 2 /\ ProfitableWalk(Edges, c)
    /\ opportunities = <<>>
    /\ ~crashed

(***************************************************************************)
(* The check pass "Check for negative cycles" of one start vertex on its   *)
(* own, an edge of graph.Edges or an iteration of the walk a step.  dist   *)
(* and prev are what the relaxation passes of that start have left;        *)
(* visited is the map created once before the loop over the edges.         *)
(***************************************************************************)
InitPass ==
    /\ poolInfo = HardcodedPools
    /\ Vertices \in SnapVertices \ {<<>>}
    /\ \E specs \in SnapEdgeLists : Edges = BuildEdges(specs, Len(specs))
    /\ mu = [writer |-> NoWriter, readers |-> 1]
    /\ pc = [p \in Pools |-> "done"]
    /\ update = [p \in Pools |-> NoUpdate]
    /\ state = [p \in Pools |-> NoState]
    /\ detPc = "search"
    /\ opportunities = <<>>
    /\ printed = <<>>
    /\ cancelled = FALSE
    /\ crashed = FALSE
    /\ \E s \in 1..Len(Vertices) :
          LET dp == RelaxPasses([dist |-> InitDist(Vertices, Vertices[s]), prev |-> InitPrev],
                                Edges, Len(Vertices) - 1)
          IN  walk = [dist |-> dp.dist, prev |-> dp.prev, i |-> 1, visited |-> {},
                      walking |-> FALSE, from |-> NoToken, current |-> NoToken,
                      cycle |-> <<>>, extracted |-> FALSE, found |-> {}]

\* for _, edge := range graph.Edges: the edge still relaxes and a walk starts
\* at edge.From, or the loop moves on
PassEdge ==
    /\ ~walk.walking
    /\ walk.i <= Len(Edges)
    /\ LET edge == Edges[walk.i] IN
        IF Relaxes(walk.dist, edge)
        THEN walk' = [walk EXCEPT !.walking = TRUE, !.from = edge.From,
                                  !.current = edge.From, !.cycle = <<edge.From>>,
                                  !.visited = @ \cup {edge.From}, !.extracted = FALSE]
        ELSE walk' = [walk EXCEPT !.i = @ + 1, !.from = NoToken, !.extracted = FALSE]
    /\ UNCHANGED <<poolInfo, Vertices, Edges, mu, pc, update, state, detPc, opportunities,
                   printed, cancelled, crashed>>

\* one iteration of "for { next := prev[current] ... }"
PassWalk ==
    /\ walk.walking
    /\ LET next == walk.prev[walk.current]
           cycleStart == CycleStart(walk.cycle, next, 1)
       IN  IF next = NoToken
           THEN /\ walk' = [walk EXCEPT !.walking = FALSE, !.i = @ + 1]
                /\ UNCHANGED opportunities
           ELSE IF next \in walk.visited
           THEN /\ walk' = [walk EXCEPT !.walking = FALSE, !.i = @ + 1,
                                        !.extracted = cycleStart # 0,
                                        !.found = IF cycleStart = 0 THEN @
                                                  ELSE @ \cup {{walk.cycle[k] :
                                                           k \in cycleStart..Len(walk.cycle)}}]
                /\ opportunities' = CompleteCycle(Edges, walk.cycle, next, opportunities)
           ELSE /\ walk' = [walk EXCEPT !.cycle = Append(@, next),
                                        !.visited = @ \cup {next}, !.current = next]
                /\ UNCHANGED opportunities
    /\ UNCHANGED <<poolInfo, Vertices, Edges, mu, pc, update, state, detPc,
                   printed, cancelled, crashed>>

NextPass == PassEdge \/ PassWalk

SpecPass == InitPass /\ [][NextPass]_vars

(***************************************************************************)
(* C23.  Within the check pass of one start vertex, a walk that starts at  *)
(* the source of a still-relaxable edge and whose predecessor chain leads  *)
(* into a cycle extracts and evaluates that cycle, whatever tokens the     *)
(* walks of earlier edges of the pass have marked visited.                 *)
(***************************************************************************)
\* the tokens of the cycle the chain of prev from t runs into, {} when the
\* chain ends at a token without predecessor
RECURSIVE ChainCycle(_, _, _)
ChainCycle(prev, t, chain) ==
    With(prev[t], LAMBDA next :
        IF next = NoToken THEN {}
        ELSE IF \E k \in 1..Len(chain) : chain[k] = next
        THEN {chain[k] : k \in CycleStart(chain, next, 1)..Len(chain)}
        ELSE ChainCycle(prev, next, Append(chain, next)))

\* the walk of the last edge examined has ended
WalkEnded == ~walk.walking /\ walk.from # NoToken

C23_LaterWalkExtractsCycle ==
    (WalkEnded /\ ChainCycle(walk.prev, walk.from, <<walk.from>>) # {})
        => walk.extracted

\* the cycle a cut walk would have run into has been extracted by an earlier
\* walk of the same pass
CutWalkCycleFoundEarlier ==
    (WalkEnded /\ ChainCycle(walk.prev, walk.from, <<walk.from>>) # {})
        => ChainCycle(walk.prev, walk.from, <<walk.from>>) \in walk.found

(***************************************************************************)
(* The program under the scheduling Go gives it: every goroutine that can  *)
(* step eventually steps, a select whose ctx.Done() case is ready          *)
(* eventually takes it, and the ticker keeps ticking.                      *)
(***************************************************************************)
FairSpec ==
    /\ Spec
    /\ WF_vars(DetStep)
    /\ \A p \in Pools : WF_vars(PoolStep(p)) /\ SF_vars(PoolCtxDone(p))

====
